---- MODULE Spec2Model ----
(***************************************************************************)
(* Time-entry ledger of the clock-out server (src/app.mjs).                *)
(*                                                                         *)
(* An instant is an integer number of milliseconds: every stored           *)
(* timestamp is the output of Date.prototype.toISOString, so two stored    *)
(* strings are equal exactly when their instants are.                      *)
(*                                                                         *)
(* Every route handler of app.mjs is synchronous, so within one server     *)
(* process a handler runs to completion: Spec has one action per handler.  *)
(* SpecRace splits the two handlers that read before they write (start     *)
(* and edit) at that point, as seen by a second connection to the same     *)
(* database file. SpecList runs the entry routes over instants that are    *)
(* whole and broken seconds apart, for the listing's duration; SpecCascade *)
(* adds the deletion of projects and API keys with their cascades.         *)
(***************************************************************************)
EXTENDS Integers, FiniteSets, Sequences, TLC

\* ---------------------------------------------------------------- bounds
MaxTime == 2
MaxId == 2
MaxDelta == 3
MaxPending == 1
MaxLegacy == 3
MaxSockets == 2

\* ------------------------------------------------------- values and inputs
\* SQL NULL / JavaScript null
Null == -100
\* JavaScript undefined: a field the request body does not carry
Absent == -101
\* a string new Date() cannot parse, or Number()/parseInt() giving NaN
NaN == -102

Owners == {1, 2}
InitProjects == {[id |-> 1, owner |-> 1], [id |-> 2, owner |-> 1], [id |-> 3, owner |-> 2]}
ProjectIds == {p.id : p \in InitProjects}

Times == 0..MaxTime
Ids == 1..MaxId
Procs == 1..MaxPending

\* messages of the errors the database driver throws
UniqueMsg == "UNIQUE constraint failed: time_entries.api_key_id"
ForeignKeyMsg == "FOREIGN KEY constraint failed"
StorageMsg == "disk I/O error"
ConflictMsg == "Another running entry already exists for this API key"

VARIABLES entries, nextId, projects, now, pend, apiKeys, clientsByApiKey, ws, sent

vars == <<entries, nextId, projects, now, pend, apiKeys, clientsByApiKey, ws, sent>>

Idle == [op |-> "idle"]

\* res.status(status).json(...): status 200 for res.json(...), error the text of
\* the error field where the properties read it
Reply(status, error) == [status |-> status, error |-> error]

\* ------------------------------------------------------------ the ledger
Running(led, apiKeyId) == {e \in led : e.owner = apiKeyId /\ e.end = Null}

\* CREATE UNIQUE INDEX idx_time_entries_one_running_per_api_key
\*   ON time_entries(api_key_id) WHERE end_time IS NULL
UniqueRunningOk(led) == \A o \in Owners : Cardinality(Running(led, o)) <= 1

\* FOREIGN KEY (project_id) REFERENCES projects(id)
ForeignKeysOk(led, projs) == \A e \in led : e.project \in {p.id : p \in projs}

\* Exec as it would be had the unique index not been created
ExecNoIndex(before, after, projs) ==
    IF ~ForeignKeysOk(after, projs) THEN [led |-> before, threw |-> TRUE, msg |-> ForeignKeyMsg]
    ELSE [led |-> after, threw |-> FALSE, msg |-> ""]

\* One statement: it either takes the table from before to after, or throws and
\* leaves the table as it was before the statement.
Exec(before, after, projs) ==
    IF ~UniqueRunningOk(after) THEN [led |-> before, threw |-> TRUE, msg |-> UniqueMsg]
    ELSE IF ~ForeignKeysOk(after, projs) THEN [led |-> before, threw |-> TRUE, msg |-> ForeignKeyMsg]
    ELSE [led |-> after, threw |-> FALSE, msg |-> ""]

\* Transaction as it would be were the statements run without db.transaction
TransactionNoRollback(before, r) == r

\* db.transaction(fn)(): commits when fn returns, rolls back when fn throws.
Transaction(before, r) == IF r.threw THEN [r EXCEPT !.led = before] ELSE r

\* error.message.includes('idx_time_entries_one_running_per_api_key')
MentionsRunningIndex(msg) ==
    msg \in {"UNIQUE constraint failed: index 'idx_time_entries_one_running_per_api_key'"}

\* the catch blocks of POST /api/time-entries and PUT /api/time-entries/:id
CatchStatus(msg) == IF MentionsRunningIndex(msg) THEN 409 ELSE 500
CatchError(msg) == IF MentionsRunningIndex(msg) THEN ConflictMsg ELSE msg

\* if (previousEntryId), if (nextEntryId): the id of a linked entry is null when
\* the request gives none, and JavaScript takes null and 0 alike as false
Linked(id) == id # Absent /\ id # 0

\* SELECT ... FROM time_entries WHERE id = ? AND api_key_id = ?
getEntry(led, id, apiKeyId) == {e \in led : e.id = id /\ e.owner = apiKeyId}

\* ProjectOf as it would be without its api_key_id = ? condition
ProjectOfAnyOwner(projs, projectId, apiKeyId) == {p \in projs : p.id = projectId}

\* SELECT id FROM projects WHERE id = ? AND api_key_id = ?
ProjectOf(projs, projectId, apiKeyId) == {p \in projs : p.id = projectId /\ p.owner = apiKeyId}

SetEnd(led, id, apiKeyId, v) ==
    {IF e.id = id /\ e.owner = apiKeyId THEN [e EXCEPT !.end = v] ELSE e : e \in led}

SetStart(led, id, apiKeyId, v) ==
    {IF e.id = id /\ e.owner = apiKeyId THEN [e EXCEPT !.start = v] ELSE e : e \in led}

\* ------------------------------------------------------------ the notifier
\* An API key and the id of its api_keys row stand for each other. A socket is
\* NoSocket until it connects; readyState "open" is WebSocket.OPEN, "closing" any
\* later state before the close event.
Socks == 1..MaxSockets
NoSocket == [readyState |-> "none", apiKey |-> Absent]
NoClients == [k \in {} |-> <<>>]
NoSends == [s \in Socks |-> <<>>]
SendMsg == "send failed"

\* validateApiKey(apiKey): a key that is given and is in api_keys
validateApiKey(apiKey) == apiKey # Absent /\ apiKey \in apiKeys

\* the message a broadcast sends: { type, data }, of data the entry (or project) id
Event(type, id) == [type |-> type, id |-> id]

\* The OPEN sockets of the key's Set, in the order forEach visits them (the order
\* in which they were added).
OpenClients(reg, w, apiKey) ==
    IF apiKey \in DOMAIN reg
    THEN SelectSeq(reg[apiKey], LAMBDA s : w[s].readyState = "open")
    ELSE <<>>

\* broadcastUpdate(apiKey, type, data): client.send(message) for each OPEN client
\* of the key. faulty are the sockets whose send raises: the first of them ends
\* the forEach and the exception leaves broadcastUpdate. to are the sockets that
\* were sent the message.
broadcastUpdate(reg, w, apiKey, faulty) ==
    LET open == OpenClients(reg, w, apiKey)
        bad == {i \in 1..Len(open) : open[i] \in faulty}
        n == IF bad = {} THEN Len(open) ELSE (CHOOSE i \in bad : \A j \in bad : i <= j) - 1
    IN  [to |-> {open[i] : i \in 1..n}, threw |-> bad # {}]

\* a handler's broadcasts, one per event, in order: a broadcast that throws is
\* the handler's last
SendThrew(reg, w, apiKey, events, faulty) ==
    events # <<>> /\ broadcastUpdate(reg, w, apiKey, faulty).threw

Sends(reg, w, apiKey, events, faulty) ==
    [s \in Socks |->
        IF events = <<>> \/ s \notin broadcastUpdate(reg, w, apiKey, faulty).to THEN <<>>
        ELSE IF SendThrew(reg, w, apiKey, events, faulty) THEN <<events[1]>>
        ELSE events]

\* the sets of sockets whose send can raise during one handler
SendFaults(apiKey) ==
    SUBSET {s \in Socks : ws[s].readyState = "open" /\ ws[s].apiKey = apiKey}

\* sent holds what the step's handler sent to each socket
Publish(apiKey, events) ==
    \E faulty \in SendFaults(apiKey) :
        sent' = Sends(clientsByApiKey, ws, apiKey, events, faulty)

\* what the handler answers: the response it was about to send, or the catch's
\* 500 when a broadcast threw first
HandlerReply(resp, threw) == IF threw THEN Reply(500, SendMsg) ELSE resp

\* the broadcasts of each handler, made after its write and only on its way to
\* the success response
PostEvents(resp, isImport, nid) ==
    IF resp.status # 200 THEN <<>>
    ELSE <<Event(IF isImport THEN "time_entry_created" ELSE "time_entry_started", nid)>>

StopEvents(resp, id) ==
    IF resp.status # 200 THEN <<>> ELSE <<Event("time_entry_stopped", id)>>

EditEvents(resp, id) ==
    IF resp.status # 200 THEN <<>> ELSE <<Event("time_entry_updated", id)>>

ShiftEvents(resp, id, prev) ==
    IF resp.status # 200 THEN <<>>
    ELSE <<Event("time_entry_updated", id)>>
         \o (IF Linked(prev) THEN <<Event("time_entry_updated", prev)>> ELSE <<>>)

EditLinkedEvents(resp, id, next, prev) ==
    IF resp.status # 200 THEN <<>>
    ELSE <<Event("time_entry_updated", id)>>
         \o (IF Linked(next) THEN <<Event("time_entry_updated", next)>> ELSE <<>>)
         \o (IF Linked(prev) THEN <<Event("time_entry_updated", prev)>> ELSE <<>>)

DeleteEvents(resp, id) ==
    IF resp.status # 200 THEN <<>> ELSE <<Event("time_entry_deleted", id)>>

DeleteProjectEvents(resp, id) ==
    IF resp.status # 200 THEN <<>> ELSE <<Event("project_deleted", id)>>

\* requireApiKey: the request's key is a row of api_keys; otherwise the reply is
\* 401 and the handler does not run
requireApiKey(o) == o \in apiKeys

Init ==
    /\ entries = {}
    /\ nextId = 1
    /\ projects = InitProjects
    /\ now = 0
    /\ pend = [p \in Procs |-> Idle]
    /\ apiKeys = Owners
    /\ clientsByApiKey = NoClients
    /\ ws = [s \in Socks |-> NoSocket]
    /\ sent = NoSends

\* the server's clock advances
Tick ==
    /\ sent' = NoSends
    /\ now < MaxTime
    /\ now' = now + 1
    /\ UNCHANGED <<entries, nextId, projects, pend, apiKeys, clientsByApiKey, ws>>


\* ------------------------------------------------- POST /api/time-entries
\* RowId as it would be for a column declared without AUTOINCREMENT: one more
\* than the largest id now in the table
RowIdOfLargest(led, seq) ==
    IF led = {} THEN 1 ELSE 1 + (CHOOSE n \in {e.id : e \in led} : \A e \in led : e.id <= n)

\* id INTEGER PRIMARY KEY AUTOINCREMENT: the id an INSERT gives its row is one
\* more than the largest id the table has ever held, which nextId carries; the
\* rows now in the table play no part
RowId(led, seq) == seq

\* stopRunning as it would be without its api_key_id = ? condition
stopRunningAnyOwner(led, start, apiKeyId) ==
    {IF e.end = Null THEN [e EXCEPT !.end = start] ELSE e : e \in led}

\* UPDATE time_entries SET end_time = ? WHERE api_key_id = ? AND end_time IS NULL
stopRunning(led, start, apiKeyId) ==
    {IF e.owner = apiKeyId /\ e.end = Null THEN [e EXCEPT !.end = start] ELSE e : e \in led}

\* startNewEntry as it would be without its UPDATE
startNewEntryNoStop(led, nid, apiKeyId, projectId, start, projs, ioFault) ==
    IF ioFault THEN [led |-> led, threw |-> TRUE, msg |-> StorageMsg]
    ELSE Exec(led,
              led \cup {[id |-> nid, owner |-> apiKeyId, project |-> projectId,
                         start |-> start, end |-> Null]},
              projs)

\* The body of the startNewEntry transaction. ioFault: the driver throws on the
\* INSERT for a reason of the storage layer (disk, I/O).
startNewEntry(led, nid, apiKeyId, projectId, start, projs, ioFault) ==
    LET stopped == stopRunning(led, start, apiKeyId)
        row == [id |-> nid, owner |-> apiKeyId, project |-> projectId,
                start |-> start, end |-> Null]
    IN  IF ioFault THEN [led |-> stopped, threw |-> TRUE, msg |-> StorageMsg]
        ELSE Exec(stopped, stopped \cup {row}, projs)

\* startNewEntry(req.apiKeyId, projectId, startTime), the response and the catch
StartOutcome(led, nid, apiKeyId, projectId, start, projs, ioFault) ==
    LET t == Transaction(led, startNewEntry(led, nid, apiKeyId, projectId, start, projs, ioFault))
    IN  IF t.threw
        THEN [led |-> t.led, nid |-> nid, resp |-> Reply(CatchStatus(t.msg), CatchError(t.msg))]
        ELSE [led |-> t.led, nid |-> nid + 1, resp |-> Reply(200, "")]

\* both start_time and end_time are given: the request creates a completed entry
IsImport(st, en) == st # Absent /\ en # Absent

\* PostReject as it would be without the startDate >= endDate test
PostRejectNoOrder(projs, apiKeyId, pj, st, en) ==
    IF pj = Absent THEN 400
    ELSE IF ProjectOf(projs, pj, apiKeyId) = {} THEN 404
    ELSE IF IsImport(st, en) /\ (st = NaN \/ en = NaN) THEN 400
    ELSE 0

\* the early returns of the handler: 0 when the request passes them
PostReject(projs, apiKeyId, pj, st, en) ==
    IF pj = Absent THEN 400
    ELSE IF ProjectOf(projs, pj, apiKeyId) = {} THEN 404
    ELSE IF IsImport(st, en) /\ (st = NaN \/ en = NaN) THEN 400
    ELSE IF IsImport(st, en) /\ st >= en THEN 400
    ELSE 0

\* ImportOutcome as it would be were the caller's running entry stopped at the
\* imported start before the INSERT
ImportOutcomeStopsRunning(led, nid, apiKeyId, projectId, st, en, projs) ==
    LET row == [id |-> nid, owner |-> apiKeyId, project |-> projectId, start |-> st, end |-> en]
        r == Exec(led, stopRunning(led, st, apiKeyId) \cup {row}, projs)
    IN  IF r.threw
        THEN [led |-> r.led, nid |-> nid, resp |-> Reply(CatchStatus(r.msg), CatchError(r.msg))]
        ELSE [led |-> r.led, nid |-> nid + 1, resp |-> Reply(200, "")]

\* INSERT INTO time_entries (api_key_id, project_id, start_time, end_time), the
\* response and the catch
ImportOutcome(led, nid, apiKeyId, projectId, st, en, projs) ==
    LET row == [id |-> nid, owner |-> apiKeyId, project |-> projectId, start |-> st, end |-> en]
        r == Exec(led, led \cup {row}, projs)
    IN  IF r.threw
        THEN [led |-> r.led, nid |-> nid, resp |-> Reply(CatchStatus(r.msg), CatchError(r.msg))]
        ELSE [led |-> r.led, nid |-> nid + 1, resp |-> Reply(200, "")]

\* the whole handler; clock is the value new Date() gives it
PostOutcome(led, nid, projs, clock, apiKeyId, pj, st, en, ioFault) ==
    IF PostReject(projs, apiKeyId, pj, st, en) # 0
    THEN [led |-> led, nid |-> nid, resp |-> Reply(PostReject(projs, apiKeyId, pj, st, en), "")]
    ELSE IF IsImport(st, en) THEN ImportOutcome(led, nid, apiKeyId, pj, st, en, projs)
    ELSE StartOutcome(led, nid, apiKeyId, pj, clock, projs, ioFault)

PostRejected(o, pj, st, en) ==
    /\ sent' = NoSends
    /\ requireApiKey(o)
    /\ PostReject(projects, o, pj, st, en) # 0
    /\ entries' = PostOutcome(entries, nextId, projects, now, o, pj, st, en, FALSE).led
    /\ UNCHANGED <<nextId, projects, now, pend, apiKeys, clientsByApiKey, ws>>

ImportClosed(o, pj, st, en) ==
    /\ requireApiKey(o)
    /\ PostReject(projects, o, pj, st, en) = 0
    /\ IsImport(st, en)
    /\ nextId <= MaxId
    /\ LET r == PostOutcome(entries, RowId(entries, nextId), projects, now, o, pj, st, en, FALSE)
       IN  /\ entries' = r.led
           /\ Publish(o, PostEvents(r.resp, TRUE, RowId(entries, nextId)))
           /\ nextId' = IF r.resp.status = 200 THEN r.nid ELSE nextId
    /\ UNCHANGED <<projects, now, pend, apiKeys, clientsByApiKey, ws>>

\* start, the whole handler in one server process
Start(o, pj, st, en, ioFault) ==
    /\ requireApiKey(o)
    /\ PostReject(projects, o, pj, st, en) = 0
    /\ ~IsImport(st, en)
    /\ nextId <= MaxId
    /\ LET r == PostOutcome(entries, RowId(entries, nextId), projects, now, o, pj, st, en, ioFault)
       IN  /\ entries' = r.led
           /\ Publish(o, PostEvents(r.resp, FALSE, RowId(entries, nextId)))
           /\ nextId' = IF r.resp.status = 200 THEN r.nid ELSE nextId
    /\ UNCHANGED <<projects, now, pend, apiKeys, clientsByApiKey, ws>>

\* --------------------------------------- PATCH /api/time-entries/:id/stop
\* stopStmt as it would be without its end_time IS NULL condition
stopStmtAnyState(led, endTime, id, apiKeyId) ==
    {IF e.id = id /\ e.owner = apiKeyId THEN [e EXCEPT !.end = endTime] ELSE e : e \in led}

\* UPDATE time_entries SET end_time = ? WHERE id = ? AND api_key_id = ? AND end_time IS NULL
stopStmt(led, endTime, id, apiKeyId) ==
    {IF e.id = id /\ e.owner = apiKeyId /\ e.end = Null THEN [e EXCEPT !.end = endTime] ELSE e
        : e \in led}

\* result.changes of that statement
stopChanges(led, id, apiKeyId) ==
    Cardinality({e \in led : e.id = id /\ e.owner = apiKeyId /\ e.end = Null})

\* the whole handler; clock is the value new Date() gives it
StopOutcome(led, clock, apiKeyId, id) ==
    IF id = NaN THEN [led |-> led, resp |-> Reply(400, "")]
    ELSE IF stopChanges(led, id, apiKeyId) = 0
    THEN [led |-> stopStmt(led, clock, id, apiKeyId), resp |-> Reply(404, "")]
    ELSE [led |-> stopStmt(led, clock, id, apiKeyId), resp |-> Reply(200, "")]

Stop(o, id) ==
    /\ requireApiKey(o)
    /\ entries' = StopOutcome(entries, now, o, id).led
    /\ Publish(o, StopEvents(StopOutcome(entries, now, o, id).resp, id))
    /\ UNCHANGED <<nextId, projects, now, pend, apiKeys, clientsByApiKey, ws>>

\* ------------------------------------------ DELETE /api/time-entries/:id
\* DeleteOutcome as it would be without the statement's api_key_id = ? condition
DeleteOutcomeAnyOwner(led, apiKeyId, id) ==
    IF id = NaN THEN [led |-> led, resp |-> Reply(400, "")]
    ELSE IF {e \in led : e.id = id} = {} THEN [led |-> led, resp |-> Reply(404, "")]
    ELSE [led |-> {e \in led : e.id # id}, resp |-> Reply(200, "")]

\* DELETE FROM time_entries WHERE id = ? AND api_key_id = ?
DeleteOutcome(led, apiKeyId, id) ==
    IF id = NaN THEN [led |-> led, resp |-> Reply(400, "")]
    ELSE IF getEntry(led, id, apiKeyId) = {} THEN [led |-> led, resp |-> Reply(404, "")]
    ELSE [led |-> led \ getEntry(led, id, apiKeyId), resp |-> Reply(200, "")]

DeleteEntry(o, id) ==
    /\ requireApiKey(o)
    /\ entries' = DeleteOutcome(entries, o, id).led
    /\ Publish(o, DeleteEvents(DeleteOutcome(entries, o, id).resp, id))
    /\ UNCHANGED <<nextId, projects, now, pend, apiKeys, clientsByApiKey, ws>>

\* ------------------------------------------------ PUT /api/time-entries/:id
InvalidStartMsg == "Invalid start_time format. Must be ISO date string."
InvalidEndMsg == "Invalid end_time format. Must be ISO date string."

\* validatedStartTime: null when start_time is not given
ValidatedStart(st) == IF st = Absent THEN Null ELSE st

\* finalStartTime = validatedStartTime ?? existingEntry.start_time
FinalStart(vs, existing) == IF vs # Null THEN vs ELSE existing.start

\* finalEndTime as it would be were the stored end_time not consulted
FinalEndGivenOnly(ve, existing) == IF ve # Absent THEN ve ELSE Null

\* finalEndTime = validatedEndTime !== undefined ? validatedEndTime : existingEntry.end_time
FinalEnd(ve, existing) == IF ve # Absent THEN ve ELSE existing.end

\* SELECT id FROM time_entries WHERE api_key_id = ? AND end_time IS NULL AND id != ?
otherRunning(led, apiKeyId, entryId) == {e \in Running(led, apiKeyId) : e.id # entryId}

\* The handler up to its UPDATE: the response it returns early (or the error
\* validateDate throws into the catch), status 0 when it reaches the UPDATE.
EditCheck(led, projs, apiKeyId, id, st, en, pj) ==
    IF id = NaN THEN Reply(400, "")
    ELSE IF st = Absent /\ en = Absent /\ pj = Absent THEN Reply(400, "")
    ELSE IF getEntry(led, id, apiKeyId) = {} THEN Reply(404, "")
    ELSE IF pj # Absent /\ ProjectOf(projs, pj, apiKeyId) = {} THEN Reply(404, "")
    ELSE IF st = NaN THEN Reply(CatchStatus(InvalidStartMsg), CatchError(InvalidStartMsg))
    ELSE IF en = NaN THEN Reply(CatchStatus(InvalidEndMsg), CatchError(InvalidEndMsg))
    ELSE LET existing == CHOOSE e \in getEntry(led, id, apiKeyId) : TRUE
             finalStartTime == FinalStart(ValidatedStart(st), existing)
             finalEndTime == FinalEnd(en, existing)
         IN  IF finalEndTime # Null /\ finalStartTime >= finalEndTime THEN Reply(400, "")
             ELSE IF finalEndTime = Null /\ otherRunning(led, apiKeyId, id) # {}
             THEN Reply(409, ConflictMsg)
             ELSE Reply(0, "")

\* the UPDATE as it would be were its SET clause fixed, naming all three columns,
\* a column not given being written as NULL where the schema allows it
editStmtAllColumns(led, id, apiKeyId, vs, ve, pj) ==
    {IF e.id = id /\ e.owner = apiKeyId
     THEN [e EXCEPT !.start = IF vs # Null THEN vs ELSE @,
                    !.end = IF ve # Absent THEN ve ELSE Null,
                    !.project = IF pj # Absent THEN pj ELSE @]
     ELSE e : e \in led}

\* UPDATE time_entries SET <the given fields> WHERE id = ? AND api_key_id = ?
editStmt(led, id, apiKeyId, vs, ve, pj) ==
    {IF e.id = id /\ e.owner = apiKeyId
     THEN [e EXCEPT !.start = IF vs # Null THEN vs ELSE @,
                    !.end = IF ve # Absent THEN ve ELSE @,
                    !.project = IF pj # Absent THEN pj ELSE @]
     ELSE e : e \in led}

\* the UPDATE, result.changes, the response and the catch
EditWriteOutcome(led, projs, apiKeyId, id, vs, ve, pj) ==
    LET r == Exec(led, editStmt(led, id, apiKeyId, vs, ve, pj), projs)
    IN  IF r.threw THEN [led |-> r.led, resp |-> Reply(CatchStatus(r.msg), CatchError(r.msg))]
        ELSE IF getEntry(led, id, apiKeyId) = {} THEN [led |-> r.led, resp |-> Reply(404, "")]
        ELSE [led |-> r.led, resp |-> Reply(200, "")]

\* the whole handler in one server process
EditOutcome(led, projs, apiKeyId, id, st, en, pj) ==
    IF EditCheck(led, projs, apiKeyId, id, st, en, pj).status # 0
    THEN [led |-> led, resp |-> EditCheck(led, projs, apiKeyId, id, st, en, pj)]
    ELSE EditWriteOutcome(led, projs, apiKeyId, id, ValidatedStart(st), en, pj)

Edit(o, id, st, en, pj) ==
    /\ requireApiKey(o)
    /\ entries' = EditOutcome(entries, projects, o, id, st, en, pj).led
    /\ Publish(o, EditEvents(EditOutcome(entries, projects, o, id, st, en, pj).resp, id))
    /\ UNCHANGED <<nextId, projects, now, pend, apiKeys, clientsByApiKey, ws>>

\* ------------------------------- PATCH /api/time-entries/:id/shift-start
\* The requested amount req.body.minutes is carried as a whole number of half
\* milliseconds (minutes * 60 * 1000 = halfMs / 2), so that amounts that are not
\* whole milliseconds exist; NaN is an amount Number() cannot read.
\* shiftMs = Math.round(minutes * 60 * 1000): halves round up.
ShiftMs(halfMs) == (halfMs + 1) \div 2

\* applyShift as it would be were the entry's UPDATE run before the linked
\* previous entry is read and checked
applyShiftStartFirst(led, apiKeyId, entryId, shiftMs, previousEntryId) ==
    IF getEntry(led, entryId, apiKeyId) = {} THEN [led |-> led, code |-> 404]
    ELSE
    LET current == CHOOSE e \in getEntry(led, entryId, apiKeyId) : TRUE
        newStart == current.start - shiftMs
        led1 == SetStart(led, entryId, apiKeyId, newStart)
    IN  IF current.end # Null /\ newStart >= current.end THEN [led |-> led, code |-> 400]
        ELSE IF ~Linked(previousEntryId) THEN [led |-> led1, code |-> 0]
        ELSE IF getEntry(led1, previousEntryId, apiKeyId) = {} THEN [led |-> led1, code |-> 404]
        ELSE
        LET previous == CHOOSE e \in getEntry(led1, previousEntryId, apiKeyId) : TRUE
            newPreviousEnd == previous.end - shiftMs
        IN  IF previous.end = Null THEN [led |-> led1, code |-> 400]
            ELSE IF previous.start >= newPreviousEnd THEN [led |-> led1, code |-> 400]
            ELSE [led |-> SetEnd(led1, previousEntryId, apiKeyId, newPreviousEnd), code |-> 0]

\* applyShift as it would be without its test of the linked previous entry's
\* new end against that entry's start
applyShiftNoPreviousTest(led, apiKeyId, entryId, shiftMs, previousEntryId) ==
    IF getEntry(led, entryId, apiKeyId) = {} THEN [led |-> led, code |-> 404]
    ELSE
    LET current == CHOOSE e \in getEntry(led, entryId, apiKeyId) : TRUE
        newStart == current.start - shiftMs
    IN  IF current.end # Null /\ newStart >= current.end THEN [led |-> led, code |-> 400]
        ELSE IF ~Linked(previousEntryId)
        THEN [led |-> SetStart(led, entryId, apiKeyId, newStart), code |-> 0]
        ELSE IF getEntry(led, previousEntryId, apiKeyId) = {} THEN [led |-> led, code |-> 404]
        ELSE
        LET previous == CHOOSE e \in getEntry(led, previousEntryId, apiKeyId) : TRUE
            newPreviousEnd == previous.end - shiftMs
        IN  IF previous.end = Null THEN [led |-> led, code |-> 400]
            ELSE [led |-> SetStart(SetEnd(led, previousEntryId, apiKeyId, newPreviousEnd),
                                   entryId, apiKeyId, newStart),
                  code |-> 0]

\* The body of the applyShift transaction: code 0 and the new table, or the
\* error it returns. No statement of it changes whether an end_time is NULL or a
\* project_id, so none can throw on a constraint.
applyShift(led, apiKeyId, entryId, shiftMs, previousEntryId) ==
    IF getEntry(led, entryId, apiKeyId) = {} THEN [led |-> led, code |-> 404]
    ELSE
    LET current == CHOOSE e \in getEntry(led, entryId, apiKeyId) : TRUE
        newStart == current.start - shiftMs
    IN  IF current.end # Null /\ newStart >= current.end THEN [led |-> led, code |-> 400]
        ELSE IF ~Linked(previousEntryId)
        THEN [led |-> SetStart(led, entryId, apiKeyId, newStart), code |-> 0]
        ELSE IF getEntry(led, previousEntryId, apiKeyId) = {} THEN [led |-> led, code |-> 404]
        ELSE
        LET previous == CHOOSE e \in getEntry(led, previousEntryId, apiKeyId) : TRUE
            newPreviousEnd == previous.end - shiftMs
        IN  IF previous.end = Null THEN [led |-> led, code |-> 400]
            ELSE IF previous.start >= newPreviousEnd THEN [led |-> led, code |-> 400]
            ELSE [led |-> SetStart(SetEnd(led, previousEntryId, apiKeyId, newPreviousEnd),
                                   entryId, apiKeyId, newStart),
                  code |-> 0]

\* the handler as it would be without its test that minutes is positive
ShiftOutcomeAnyAmount(led, apiKeyId, id, halfMs, prev) ==
    IF id = NaN \/ halfMs = NaN THEN [led |-> led, resp |-> Reply(400, "")]
    ELSE LET r == applyShift(led, apiKeyId, id, ShiftMs(halfMs), prev)
         IN  [led |-> r.led, resp |-> Reply(IF r.code = 0 THEN 200 ELSE r.code, "")]

\* the whole handler
ShiftOutcome(led, apiKeyId, id, halfMs, prev) ==
    IF id = NaN \/ halfMs = NaN \/ halfMs <= 0 THEN [led |-> led, resp |-> Reply(400, "")]
    ELSE LET r == applyShift(led, apiKeyId, id, ShiftMs(halfMs), prev)
         IN  [led |-> r.led, resp |-> Reply(IF r.code = 0 THEN 200 ELSE r.code, "")]

\* the instants the model keeps: a shift to before instant 0 is not taken
ShiftInRange(led, apiKeyId, id, halfMs) ==
    \A e \in getEntry(led, id, apiKeyId) : halfMs # NaN => e.start - ShiftMs(halfMs) >= 0

ShiftStart(o, id, halfMs, prev) ==
    /\ requireApiKey(o)
    /\ ShiftInRange(entries, o, id, halfMs)
    /\ entries' = ShiftOutcome(entries, o, id, halfMs, prev).led
    /\ Publish(o, ShiftEvents(ShiftOutcome(entries, o, id, halfMs, prev).resp, id, prev))
    /\ UNCHANGED <<nextId, projects, now, pend, apiKeys, clientsByApiKey, ws>>

\* ---------------------------------- PUT /api/time-entries/:id/edit-linked
\* the early returns before the transaction: 0 when the request passes them
EditLinkedReject(id, st, en) ==
    IF id = NaN THEN 400
    ELSE IF st = Absent THEN 400
    ELSE IF st = NaN \/ en = NaN THEN 400
    ELSE IF en # Absent /\ st >= en THEN 400
    ELSE 0

\* the linked next entry as it would be handled were it also updated when only
\* the end changed
cascadesToNextOnAnyChange(nextEntryId, startChanged, endChanged) ==
    Linked(nextEntryId) /\ (startChanged \/ endChanged)

\* if (nextEntryId && startChanged): the linked next entry is read, tested and
\* updated only when the start changed
cascadesToNext(nextEntryId, startChanged, endChanged) ==
    Linked(nextEntryId) /\ startChanged

\* the linked next entry as it would be handled without the test of its start
nextNeverInvalid(nextStart, newStart) == FALSE

\* new Date(nextEntry.start_time) >= newStart
nextWouldBeInvalid(nextStart, newStart) == nextStart >= newStart

\* The body of the applyEdit transaction, statement by statement. It returns
\* {error} (code # 0) without throwing, or throws on the last UPDATE.
applyEdit(led, projs, apiKeyId, entryId, newStart, normalizedEnd, nextEntryId, previousEntryId) ==
    IF getEntry(led, entryId, apiKeyId) = {}
    THEN [led |-> led, threw |-> FALSE, msg |-> "", code |-> 404]
    ELSE
    LET current == CHOOSE e \in getEntry(led, entryId, apiKeyId) : TRUE
        startChanged == newStart # current.start
        endChanged == normalizedEnd # current.end
        doNext == cascadesToNext(nextEntryId, startChanged, endChanged)
        doPrevious == Linked(previousEntryId) /\ endChanged /\ normalizedEnd # Null
        nextRows == getEntry(led, nextEntryId, apiKeyId)
        nextCode == IF ~doNext THEN 0
                    ELSE IF nextRows = {} THEN 404
                    ELSE IF nextWouldBeInvalid((CHOOSE e \in nextRows : TRUE).start, newStart) THEN 400
                    ELSE 0
        led1 == IF doNext /\ nextCode = 0 THEN SetEnd(led, nextEntryId, apiKeyId, newStart) ELSE led
        previousRows == getEntry(led1, previousEntryId, apiKeyId)
        previousCode == IF ~doPrevious THEN 0
                        ELSE IF previousRows = {} THEN 404
                        ELSE IF (CHOOSE e \in previousRows : TRUE).end = Null THEN 400
                        ELSE IF normalizedEnd >= (CHOOSE e \in previousRows : TRUE).end THEN 400
                        ELSE 0
        led2 == IF doPrevious /\ previousCode = 0
                THEN SetStart(led1, previousEntryId, apiKeyId, normalizedEnd) ELSE led1
        last == Exec(led2,
                     {IF e.id = entryId /\ e.owner = apiKeyId
                      THEN [e EXCEPT !.start = newStart, !.end = normalizedEnd] ELSE e : e \in led2},
                     projs)
    IN  IF nextCode # 0 THEN [led |-> led, threw |-> FALSE, msg |-> "", code |-> nextCode]
        ELSE IF previousCode # 0 THEN [led |-> led1, threw |-> FALSE, msg |-> "", code |-> previousCode]
        ELSE [led |-> last.led, threw |-> last.threw, msg |-> last.msg, code |-> 0]

\* the whole handler: its catch sends every thrown error as 500
EditLinkedOutcome(led, projs, apiKeyId, id, st, en, next, prev) ==
    IF EditLinkedReject(id, st, en) # 0
    THEN [led |-> led, resp |-> Reply(EditLinkedReject(id, st, en), "")]
    ELSE
    LET t == Transaction(led, applyEdit(led, projs, apiKeyId, id, st,
                                        IF en = Absent THEN Null ELSE en, next, prev))
    IN  IF t.threw THEN [led |-> t.led, resp |-> Reply(500, t.msg)]
        ELSE IF t.code # 0 THEN [led |-> t.led, resp |-> Reply(t.code, "")]
        ELSE [led |-> t.led, resp |-> Reply(200, "")]

EditLinked(o, id, st, en, next, prev) ==
    /\ requireApiKey(o)
    /\ entries' = EditLinkedOutcome(entries, projects, o, id, st, en, next, prev).led
    /\ Publish(o, EditLinkedEvents(EditLinkedOutcome(entries, projects, o, id, st, en, next, prev).resp,
                                   id, next, prev))
    /\ UNCHANGED <<nextId, projects, now, pend, apiKeys, clientsByApiKey, ws>>

\* ----------------------------------------------------------- one process
\* Requests. A handler that rejects a request before it reads the entry, or that
\* does not find the entry, gives the same response whatever the other fields
\* are: one request of each such kind is drawn.
PostBadTimes == {<<Absent, Absent>>, <<NaN, 0>>, <<0, NaN>>, <<1, 0>>, <<1, 1>>}
StartTimes == {<<Absent, Absent>>, <<0, Absent>>, <<Absent, 0>>}
EditLinkedBad == {<<NaN, 0, Absent>>, <<1, Absent, 1>>, <<1, NaN, 1>>, <<1, 0, NaN>>,
                  <<1, 1, 0>>, <<1, 1, 1>>}
TimeIn == Times \cup {Absent, NaN}
EndIn == Times \cup {Absent, Null, NaN}
IdIn == Ids \cup {NaN}
LinkIn == (0..MaxId + 1) \cup {Absent}
\* the project ids a request can name: those of the seeded projects and one that
\* no project has
ProjectRefs == ProjectIds \cup {Cardinality(InitProjects) + 1}
ProjectIn == ProjectIds \cup {Absent}
DeltaIn == (-1..MaxDelta) \cup {NaN}

Owned(o, id) == getEntry(entries, id, o) # {}

Next ==
    \/ Tick
    \/ \E o \in Owners, pj \in ProjectIn, t \in PostBadTimes : PostRejected(o, pj, t[1], t[2])
    \/ \E o \in Owners, pj \in ProjectIds, st \in Times, en \in Times : ImportClosed(o, pj, st, en)
    \/ \E o \in Owners, pj \in ProjectIds, t \in StartTimes, ioFault \in BOOLEAN :
          Start(o, pj, t[1], t[2], ioFault)
    \/ \E o \in Owners, id \in IdIn : Stop(o, id)
    \/ \E o \in Owners, id \in IdIn :
          IF Owned(o, id)
          THEN \E st \in TimeIn, en \in EndIn, pj \in ProjectIn : Edit(o, id, st, en, pj)
          ELSE \E st \in {Absent, 0} : Edit(o, id, st, Absent, Absent)
    \/ \E o \in Owners, id \in IdIn :
          IF Owned(o, id)
          THEN \E halfMs \in DeltaIn, prev \in LinkIn : ShiftStart(o, id, halfMs, prev)
          ELSE \E halfMs \in {NaN, 0, 1} : ShiftStart(o, id, halfMs, Absent)
    \/ \E o \in Owners, id \in Ids :
          IF Owned(o, id)
          THEN \E st \in Times, en \in Times \cup {Absent}, next \in LinkIn, prev \in LinkIn :
                  EditLinked(o, id, st, en, next, prev)
          ELSE EditLinked(o, id, 0, Absent, Absent, Absent)
    \/ \E o \in Owners, b \in EditLinkedBad : EditLinked(o, b[1], b[2], b[3], Absent, Absent)
    \/ \E o \in Owners, id \in IdIn : DeleteEntry(o, id)

Spec == Init /\ [][Next]_vars

\* ------------------------------------- two connections to one database file
\* A second connection commits between the statements of a handler only where
\* the handler is between two transactions: start reads the clock and the
\* project before its transaction; edit reads and checks the entry before its
\* UPDATE. pend[p] is a request that has passed its checks and not yet written.
StartBegin(p, o, pj, st, en) ==
    /\ sent' = NoSends
    /\ requireApiKey(o)
    /\ pend[p] = Idle
    /\ PostReject(projects, o, pj, st, en) = 0
    /\ ~IsImport(st, en)
    /\ pend' = [pend EXCEPT ![p] = [op |-> "start", owner |-> o, project |-> pj, start |-> now]]
    /\ UNCHANGED <<entries, nextId, projects, now, apiKeys, clientsByApiKey, ws>>

StartCommit(p, ioFault) ==
    /\ pend[p].op = "start"
    /\ nextId <= MaxId
    /\ LET r == StartOutcome(entries, RowId(entries, nextId), pend[p].owner, pend[p].project,
                             pend[p].start, projects, ioFault)
       IN  /\ entries' = r.led
           /\ Publish(pend[p].owner, PostEvents(r.resp, FALSE, RowId(entries, nextId)))
           /\ nextId' = IF r.resp.status = 200 THEN r.nid ELSE nextId
    /\ pend' = [pend EXCEPT ![p] = Idle]
    /\ UNCHANGED <<projects, now, apiKeys, clientsByApiKey, ws>>

EditBegin(p, o, id, st, en, pj) ==
    /\ sent' = NoSends
    /\ requireApiKey(o)
    /\ pend[p] = Idle
    /\ pend' = IF EditCheck(entries, projects, o, id, st, en, pj).status # 0
               THEN pend
               ELSE [pend EXCEPT ![p] = [op |-> "edit", owner |-> o, id |-> id,
                                         vs |-> ValidatedStart(st), ve |-> en, pj |-> pj]]
    /\ UNCHANGED <<entries, nextId, projects, now, apiKeys, clientsByApiKey, ws>>

EditWrite(p) ==
    /\ pend[p].op = "edit"
    /\ entries' = EditWriteOutcome(entries, projects, pend[p].owner, pend[p].id,
                                   pend[p].vs, pend[p].ve, pend[p].pj).led
    /\ Publish(pend[p].owner,
               EditEvents(EditWriteOutcome(entries, projects, pend[p].owner, pend[p].id,
                                           pend[p].vs, pend[p].ve, pend[p].pj).resp,
                          pend[p].id))
    /\ pend' = [pend EXCEPT ![p] = Idle]
    /\ UNCHANGED <<nextId, projects, now, apiKeys, clientsByApiKey, ws>>

NextRace ==
    \/ Tick
    \/ \E o \in Owners, pj \in ProjectIds, st \in Times, en \in Times : ImportClosed(o, pj, st, en)
    \/ \E o \in Owners, pj \in ProjectIds, ioFault \in BOOLEAN : Start(o, pj, Absent, Absent, ioFault)
    \/ \E p \in Procs, o \in Owners, pj \in ProjectIds : StartBegin(p, o, pj, Absent, Absent)
    \/ \E p \in Procs, ioFault \in BOOLEAN : StartCommit(p, ioFault)
    \/ \E o \in Owners, id \in Ids : Stop(o, id)
    \/ \E p \in Procs, o \in Owners, id \in Ids :
          /\ Owned(o, id)
          /\ \E st \in Times \cup {Absent}, en \in Times \cup {Absent, Null}, pj \in ProjectIn :
                EditBegin(p, o, id, st, en, pj)
    \/ \E p \in Procs : EditWrite(p)
    \/ \E o \in Owners, id \in Ids : DeleteEntry(o, id)

SpecRace == Init /\ [][NextRace]_vars


\* ------------------------------------------------- GET /api/time-entries
\* milliseconds in a second, the divisor of duration
SecondMs == 1000

\* the window of the listing without all=true: 168 hours
WindowMs == 168 * 60 * 60 * SecondMs

\* duration: Math.floor((end - start) / 1000) for a completed row, -1 for a running one
Duration(e) == IF e.end # Null THEN (e.end - e.start) \div SecondMs ELSE -1

\* The rows the SELECT gives (the JOIN keeps a row when its project exists), each
\* mapped to the object the handler sends. The ORDER BY is not kept: the result
\* is read as a set. clock is the value Date.now() gives the handler.
listEntries(led, projs, apiKeyId, showAll, clock) ==
    {[id |-> e.id, project_id |-> e.project, start |-> e.start, stop |-> e.end,
      duration |-> Duration(e)] :
        e \in {f \in led : /\ f.owner = apiKeyId
                           /\ \E p \in projs : p.id = f.project
                           /\ (showAll \/ f.end = Null \/ f.end >= clock - WindowMs)}}

\* ------------------------------------------- GET /api/time-entries/current
\* res.json(null)
NullBody == [id |-> Null, project_id |-> Null, start |-> Null]

\* the handler as it would be were its SELECT without end_time IS NULL
currentEntryLatest(led, projs, apiKeyId) ==
    LET rows == {e \in led : e.owner = apiKeyId /\ \E p \in projs : p.id = e.project}
        first == {e \in rows : \A q \in rows : q.start <= e.start}
    IN  IF rows = {} THEN {NullBody}
        ELSE {[id |-> e.id, project_id |-> e.project, start |-> e.start] : e \in first}

\* The bodies the handler can send: the first row of the caller's running rows
\* (whose project exists) under ORDER BY start_time DESC LIMIT 1, any of them
\* when several share the latest start; null when there is no such row.
currentEntry(led, projs, apiKeyId) ==
    LET rows == {e \in led : /\ e.owner = apiKeyId /\ e.end = Null
                             /\ \E p \in projs : p.id = e.project}
        first == {e \in rows : \A q \in rows : q.start <= e.start}
    IN  IF rows = {} THEN {NullBody}
        ELSE {[id |-> e.id, project_id |-> e.project, start |-> e.start] : e \in first}

\* Instants whose differences are whole and broken numbers of seconds, for the
\* listing: 0 s, 0.999 s, 1 s, 2.5 s.
ListTimes == {0, SecondMs - 1, SecondMs, 2 * SecondMs + 500}

\* the server's clock advances to the next of these instants
TickList ==
    /\ sent' = NoSends
    /\ \E t \in ListTimes :
          /\ t > now
          /\ \A u \in ListTimes : u > now => t <= u
          /\ now' = t
    /\ UNCHANGED <<entries, nextId, projects, pend, apiKeys, clientsByApiKey, ws>>

NextList ==
    \/ TickList
    \/ \E o \in Owners, pj \in ProjectIds, st \in ListTimes, en \in ListTimes :
          ImportClosed(o, pj, st, en)
    \/ \E o \in Owners, pj \in ProjectIds : Start(o, pj, Absent, Absent, FALSE)
    \/ \E o \in Owners, id \in Ids : Stop(o, id)
    \/ \E o \in Owners, id \in Ids, st \in ListTimes : Edit(o, id, st, Absent, Absent)
    \/ \E o \in Owners, id \in Ids : DeleteEntry(o, id)

SpecList == Init /\ [][NextList]_vars

\* --------------------- DELETE /api/projects/:id, DELETE /api/admin/keys/:id
\* the cascade as it would be with foreign_keys off
CascadeOff(led, projs, keys) == led

\* ON DELETE CASCADE of time_entries: the rows whose project and whose API key
\* are still there
Cascade(led, projs, keys) ==
    {e \in led : e.owner \in keys /\ \E p \in projs : p.id = e.project}

\* DELETE FROM projects WHERE id = ? AND api_key_id = ?, with its cascade
DeleteProjectOutcome(led, projs, keys, apiKeyId, projectId) ==
    IF projectId = NaN THEN [led |-> led, projs |-> projs, resp |-> Reply(400, "")]
    ELSE IF ProjectOf(projs, projectId, apiKeyId) = {}
    THEN [led |-> led, projs |-> projs, resp |-> Reply(404, "")]
    ELSE LET kept == projs \ ProjectOf(projs, projectId, apiKeyId)
         IN  [led |-> Cascade(led, kept, keys), projs |-> kept, resp |-> Reply(200, "")]

DeleteProject(o, projectId) ==
    /\ requireApiKey(o)
    /\ LET r == DeleteProjectOutcome(entries, projects, apiKeys, o, projectId)
       IN  /\ entries' = r.led
           /\ Publish(o, DeleteProjectEvents(r.resp, projectId))
           /\ projects' = r.projs
    /\ UNCHANGED <<nextId, now, pend, apiKeys, clientsByApiKey, ws>>

\* the deletion of an API key as it would be were projects declared without ON
\* DELETE CASCADE and foreign keys not enforced on it
DeleteApiKeyOutcomeKeepsProjects(led, projs, keys, id) ==
    IF id \notin keys
    THEN [led |-> led, projs |-> projs, keys |-> keys, resp |-> Reply(404, "")]
    ELSE [led |-> Cascade(led, projs, keys \ {id}), projs |-> projs,
          keys |-> keys \ {id}, resp |-> Reply(200, "")]

\* DELETE FROM api_keys WHERE id = ?, with its cascade onto projects and
\* time_entries
DeleteApiKeyOutcome(led, projs, keys, id) ==
    IF id \notin keys
    THEN [led |-> led, projs |-> projs, keys |-> keys, resp |-> Reply(404, "")]
    ELSE LET keptKeys == keys \ {id}
             keptProjects == {p \in projs : p.owner \in keptKeys}
         IN  [led |-> Cascade(led, keptProjects, keptKeys), projs |-> keptProjects,
              keys |-> keptKeys, resp |-> Reply(200, "")]

\* the admin route (the admin password is right)
DeleteApiKey(id) ==
    /\ sent' = NoSends
    /\ LET r == DeleteApiKeyOutcome(entries, projects, apiKeys, id)
       IN  /\ entries' = r.led
           /\ projects' = r.projs
           /\ apiKeys' = r.keys
    /\ UNCHANGED <<nextId, now, pend, clientsByApiKey, ws>>

\* a request with a key that is no row of api_keys: 401, nothing runs
Unauthorized(o) ==
    /\ ~requireApiKey(o)
    /\ sent' = NoSends
    /\ UNCHANGED <<entries, nextId, projects, now, pend, apiKeys, clientsByApiKey, ws>>

NextCascade ==
    \/ \E o \in Owners, pj \in ProjectRefs : ImportClosed(o, pj, 0, 1)
    \/ \E o \in Owners, pj \in ProjectRefs : Start(o, pj, Absent, Absent, FALSE)
    \/ \E o \in Owners, pj \in ProjectRefs : PostRejected(o, pj, Absent, Absent)
    \/ \E o \in Owners, id \in Ids : Stop(o, id)
    \/ \E o \in Owners, id \in Ids, en \in {Absent, Null}, pj \in ProjectRefs \cup {Absent} :
          Edit(o, id, Absent, en, pj)
    \/ \E o \in Owners, id \in Ids : DeleteEntry(o, id)
    \/ \E o \in Owners, pj \in ProjectRefs \cup {NaN} : DeleteProject(o, pj)
    \/ \E id \in Owners \cup {NaN} : DeleteApiKey(id)
    \/ \E o \in Owners : Unauthorized(o)

SpecCascade == Init /\ [][NextCascade]_vars

\* ------------------------------ reconcileRunningEntriesForConstraints
\* the rows of one api_key_id among the rows the SELECT gives (end_time IS NULL)
rowsByApiKey(led, k) == {e \in led : e.end = Null /\ e.owner = k}

\* newest as it would be were the rows ordered by start_time ascending
oldest(rows) ==
    CHOOSE r \in rows : \A q \in rows : r.start < q.start \/ (q.start = r.start /\ q.id <= r.id)

\* runningEntries[0] under ORDER BY start_time DESC, id DESC
newest(rows) ==
    CHOOSE r \in rows : \A q \in rows : q.start < r.start \/ (q.start = r.start /\ q.id <= r.id)

\* stale as it would be were every running row of the key closed
staleAll(rows) == rows

\* stale as it would be were only the rows that started before the newest closed
staleStrictlyOlder(rows) ==
    IF Cardinality(rows) <= 1 THEN {} ELSE {r \in rows : r.start < newest(rows).start}

\* the rows the inner loop closes: runningEntries.slice(1), none when the key
\* has at most one running row
stale(rows) == IF Cardinality(rows) <= 1 THEN {} ELSE rows \ {newest(rows)}

\* The reconcile transaction: each stale row gets the start_time of the newest row
\* of its key as end_time; closed is the count it returns. The function runs at
\* start-up, before the unique index exists.
reconcileRunningEntriesForConstraints(led) ==
    [led |-> {IF e \in stale(rowsByApiKey(led, e.owner))
              THEN [e EXCEPT !.end = newest(rowsByApiKey(led, e.owner)).start]
              ELSE e : e \in led},
     closed |-> Cardinality(UNION {stale(rowsByApiKey(led, e.owner)) : e \in led})]

\* The tables a server can find at start-up, written before the index existed:
\* up to MaxLegacy rows, each running or completed, of either key.
LegacyRows(id) ==
    {[id |-> id, owner |-> p.owner, project |-> p.id, start |-> st, end |-> en] :
        p \in {q \in InitProjects : q.id # 2}, st \in Times, en \in {Null, MaxTime + 1}}

LegacyLedgers ==
    {UNION {f[id] : id \in 1..MaxLegacy} :
        f \in [1..MaxLegacy -> {{}} \cup {{r} : r \in UNION {LegacyRows(id) : id \in 1..MaxLegacy}}]}

InitLegacy ==
    /\ entries \in {led \in LegacyLedgers :
                       \A e \in led, f \in led : e.id = f.id => e = f}
    /\ nextId = MaxLegacy + 1
    /\ projects = InitProjects
    /\ now = 0
    /\ pend = [p \in Procs |-> Idle]
    /\ apiKeys = Owners
    /\ clientsByApiKey = NoClients
    /\ ws = [s \in Socks |-> NoSocket]
    /\ sent = NoSends

Reconcile ==
    /\ sent' = NoSends
    /\ entries' = reconcileRunningEntriesForConstraints(entries).led
    /\ UNCHANGED <<nextId, projects, now, pend, apiKeys, clientsByApiKey, ws>>

NextReconcile == Reconcile

SpecReconcile == InitLegacy /\ [][NextReconcile]_vars

\* ------------------------------------------------- wss.on('connection')
\* clientsByApiKey.get(apiKey).add(ws), the Set made first if the key has none
RegistryAdd(reg, apiKey, s) ==
    IF apiKey \in DOMAIN reg THEN [reg EXCEPT ![apiKey] = Append(@, s)]
    ELSE [k \in DOMAIN reg \cup {apiKey} |-> IF k = apiKey THEN <<s>> ELSE reg[k]]

\* the close handler as it would be without its deletion of a key whose Set
\* has become empty
RegistryRemoveKeepsKey(reg, apiKey, s) ==
    IF apiKey \notin DOMAIN reg THEN reg
    ELSE [reg EXCEPT ![apiKey] = SelectSeq(@, LAMBDA t : t # s)]

\* ws.on('close'): clients.delete(ws), and the key deleted when its Set is empty
RegistryRemove(reg, apiKey, s) ==
    IF apiKey \notin DOMAIN reg THEN reg
    ELSE LET rest == SelectSeq(reg[apiKey], LAMBDA t : t # s)
         IN  IF rest = <<>> THEN [k \in DOMAIN reg \ {apiKey} |-> reg[k]]
             ELSE [reg EXCEPT ![apiKey] = rest]

\* A socket connects with the api_key of its URL (Absent: none given). Without a
\* valid key it is closed at once and never stored.
Connect(s, apiKey) ==
    /\ ws[s] = NoSocket
    /\ IF validateApiKey(apiKey)
       THEN /\ clientsByApiKey' = RegistryAdd(clientsByApiKey, apiKey, s)
            /\ ws' = [ws EXCEPT ![s] = [readyState |-> "open", apiKey |-> apiKey]]
       ELSE UNCHANGED <<clientsByApiKey, ws>>
    /\ sent' = NoSends
    /\ UNCHANGED <<entries, nextId, projects, now, pend, apiKeys>>

\* the closing handshake begins: the socket is no longer OPEN, its close event
\* has not fired yet
BeginClose(s) ==
    /\ ws[s].readyState = "open"
    /\ ws' = [ws EXCEPT ![s].readyState = "closing"]
    /\ sent' = NoSends
    /\ UNCHANGED <<entries, nextId, projects, now, pend, apiKeys, clientsByApiKey>>

\* the close event of a stored socket
CloseEvent(s) ==
    /\ ws[s].readyState \in {"open", "closing"}
    /\ clientsByApiKey' = RegistryRemove(clientsByApiKey, ws[s].apiKey, s)
    /\ ws' = [ws EXCEPT ![s] = NoSocket]
    /\ sent' = NoSends
    /\ UNCHANGED <<entries, nextId, projects, now, pend, apiKeys>>

\* the api_key of a connection's URL: a key of api_keys, none, or a string that
\* is no key
KeyIn == Owners \cup {Absent, Cardinality(Owners) + 1}

NextNotify ==
    \/ \E s \in Socks, k \in KeyIn : Connect(s, k)
    \/ \E s \in Socks : BeginClose(s)
    \/ \E s \in Socks : CloseEvent(s)
    \/ \E o \in Owners, pj \in ProjectIds : ImportClosed(o, pj, 0, 2)
    \/ \E o \in Owners, pj \in ProjectIds : Start(o, pj, Absent, Absent, FALSE)
    \/ \E o \in Owners, id \in Ids : Stop(o, id)
    \/ \E o \in Owners, id \in Ids : Edit(o, id, Absent, Null, Absent)
    \/ \E o \in Owners, id \in Ids, prev \in LinkIn : ShiftStart(o, id, 2, prev)
    \/ \E o \in Owners, id \in Ids, next \in Ids \cup {Absent}, prev \in Ids \cup {Absent} :
          EditLinked(o, id, 0, 2, next, prev)
    \/ \E o \in Owners, id \in Ids : DeleteEntry(o, id)

SpecNotify == Init /\ [][NextNotify]_vars

\* --------------------- the earlier server: cleanupStaleRunningEntries
\* The earlier server has no unique index on running rows; it calls
\* cleanupStaleRunningEntries(req.apiKeyId) at the head of GET
\* /api/time-entries/current and GET /api/time-entries.
\* the rows of its SELECT: the key's rows with end_time IS NULL
allRunning(led, apiKeyId) == {e \in led : e.owner = apiKeyId /\ e.end = Null}

\* runningEntries[0] as it would be were the SELECT ordered by start_time ascending
leastRecent(rows) == {r \in rows : \A q \in rows : r.start <= q.start}

\* The rows that can be runningEntries[0] under ORDER BY start_time DESC: the
\* order of rows with the same start_time is not fixed by the statement.
mostRecent(rows) == {r \in rows : \A q \in rows : q.start <= r.start}

\* With first as runningEntries[0]: every other running row of the key gets its
\* own start_time as end_time; count is the number the function returns.
cleanupStaleRunningEntries(led, apiKeyId, first) ==
    IF Cardinality(allRunning(led, apiKeyId)) > 1
    THEN [led |-> {IF e \in allRunning(led, apiKeyId) \ {first}
                   THEN [e EXCEPT !.end = e.start] ELSE e : e \in led},
          count |-> Cardinality(allRunning(led, apiKeyId)) - 1]
    ELSE [led |-> led, count |-> 0]

\* GET /api/time-entries/current of the earlier server: the clean-up, then a read
CleanupCurrent(o) ==
    /\ requireApiKey(o)
    /\ IF allRunning(entries, o) = {} THEN entries' = entries
       ELSE \E first \in mostRecent(allRunning(entries, o)) :
                entries' = cleanupStaleRunningEntries(entries, o, first).led
    /\ sent' = NoSends
    /\ UNCHANGED <<nextId, projects, now, pend, apiKeys, clientsByApiKey, ws>>

NextCleanup == \E o \in Owners : CleanupCurrent(o)

SpecCleanup == InitLegacy /\ [][NextCleanup]_vars

\* ------------------------------------------------------------- properties
OpenOf(led, o) == {e \in led : e.owner = o /\ e.end = Null}
OwnProjects(o) == {p.id : p \in {q \in projects : q.owner = o}}

\* C1: in every committed state each owner has at most one entry whose end is
\* null.
C1_OneOpenEntryPerOwner ==
    \A o \in Owners : Cardinality({e \in entries : e.owner = o /\ e.end = Null}) <= 1

\* an owner has an open and a closed entry, and editLinked without an end on the
\* closed one is thrown out by the unique index
C1_Witness ==
    \E e1 \in entries, e2 \in entries :
        /\ e1.owner = e2.owner /\ e1.end = Null /\ e2.end # Null
        /\ EditLinkedOutcome(entries, projects, e2.owner, e2.id, e2.start, Absent,
                             Absent, Absent).resp.status = 500

\* C2: a successful start issued while the owner has exactly one open entry E1
\* leaves exactly one more entry: E1 closed at the new entry's start, the new
\* entry open on the requested project, every other entry as it was.
C2_StartClosesThenOpens ==
    \A o \in Owners, pj \in ProjectIds :
        LET r == PostOutcome(entries, nextId, projects, now, o, pj, Absent, Absent, FALSE)
            new == [id |-> nextId, owner |-> o, project |-> pj, start |-> now, end |-> Null]
        IN  (r.resp.status = 200 /\ Cardinality(OpenOf(entries, o)) = 1) =>
                /\ Cardinality(r.led) = Cardinality(entries) + 1
                /\ new \in r.led
                /\ \A e \in entries :
                      IF e \in OpenOf(entries, o)
                      THEN [e EXCEPT !.end = new.start] \in r.led
                      ELSE e \in r.led

\* the owner has one open entry, the ledger holds another entry, and start succeeds
C2_Witness ==
    \E o \in Owners, pj \in ProjectIds :
        /\ Cardinality(OpenOf(entries, o)) = 1
        /\ Cardinality(entries) >= 2
        /\ PostOutcome(entries, nextId, projects, now, o, pj, Absent, Absent, FALSE).resp.status = 200

\* C3: a start whose INSERT raises after its close step has run leaves the ledger
\* exactly as it was before the call: the open entry still open, no new entry.
C3_FailedStartRollsBack ==
    \A o \in Owners, pj \in ProjectIds, ioFault \in BOOLEAN :
        LET r == PostOutcome(entries, nextId, projects, now, o, pj, Absent, Absent, ioFault)
        IN  /\ r.resp.status # 200 => (r.led = entries /\ r.nid = nextId)
            /\ (ioFault /\ pj \in OwnProjects(o)) => r.resp.status = 500

\* the close step changes the ledger and the INSERT then raises
C3_Witness ==
    \E o \in Owners, pj \in ProjectIds :
        /\ OpenOf(entries, o) # {}
        /\ startNewEntry(entries, nextId, o, pj, now, projects, TRUE).threw
        /\ startNewEntry(entries, nextId, o, pj, now, projects, TRUE).led # entries
        /\ PostOutcome(entries, nextId, projects, now, o, pj, Absent, Absent, TRUE).resp.status = 500

C5_StartBeforeEnd == \A e \in entries : e.end # Null => e.start < e.end

\* C6: whenever editLinked returns an error, no entry differs from its value
\* before the call.
C6_EditLinkedAllOrNothing ==
    \A o \in Owners, id \in Ids, st \in Times, en \in Times \cup {Absent},
       next \in LinkIn, prev \in LinkIn :
        LET r == EditLinkedOutcome(entries, projects, o, id, st, en, next, prev)
        IN  r.resp.status # 200 => r.led = entries

\* C7: stop on the caller's open entry succeeds and sets its end; every later
\* stop on that entry fails with NotFound and leaves the end at that value.
C7_StopTwice ==
    \A o \in Owners, id \in Ids :
        \A e \in getEntry(entries, id, o) :
            LET r == StopOutcome(entries, now, o, id)
            IN  IF e.end = Null
                THEN /\ r.resp.status = 200
                     /\ r.led = (entries \ {e}) \cup {[e EXCEPT !.end = now]}
                     /\ \A later \in now..MaxTime :
                           /\ StopOutcome(r.led, later, o, id).resp.status = 404
                           /\ StopOutcome(r.led, later, o, id).led = r.led
                ELSE /\ r.resp.status = 404
                     /\ r.led = entries

\* the caller's entry is closed, the clock has moved past its end, and stop on it
\* is NotFound
C7_Witness ==
    \E e \in entries :
        /\ e.end # Null /\ e.end < now
        /\ StopOutcome(entries, now, e.owner, e.id).resp.status = 404

\* C8: an edit that clears the end of a closed entry while another entry of the
\* owner is open fails with Conflict and changes nothing, both when the edit's own
\* check sees the other open entry and when that entry was committed between the
\* check and the UPDATE.
C8_ReopenIsConflict ==
    /\ \A e \in entries :
          (e.end # Null /\ OpenOf(entries, e.owner) # {}) =>
              LET r == EditOutcome(entries, projects, e.owner, e.id, Absent, Null, Absent)
              IN  r.resp.status = 409 /\ r.led = entries
    /\ \A p \in Procs :
          (/\ pend[p].op = "edit"
           /\ pend[p].ve = Null
           /\ \E e \in getEntry(entries, pend[p].id, pend[p].owner) : e.end # Null
           /\ OpenOf(entries, pend[p].owner) # {}) =>
              LET r == EditWriteOutcome(entries, projects, pend[p].owner, pend[p].id,
                                        pend[p].vs, pend[p].ve, pend[p].pj)
              IN  r.resp.status = 409 /\ r.led = entries

\* C9: a violation of the one-open-entry unique index is never reported as an
\* internal error, by start, importClosed, edit or editLinked.
C9_IndexViolationIsConflict ==
    /\ \A o \in Owners, id \in Ids, st \in Times, en \in Times \cup {Absent} :
          LET r == EditLinkedOutcome(entries, projects, o, id, st, en, Absent, Absent)
          IN  r.resp.status = 500 => r.resp.error # UniqueMsg
    /\ \A o \in Owners, id \in Ids, en \in EndIn :
          LET r == EditOutcome(entries, projects, o, id, Absent, en, Absent)
          IN  r.resp.status = 500 => r.resp.error # UniqueMsg
    /\ \A o \in Owners, pj \in ProjectIds, t \in StartTimes \cup {<<0, 1>>} :
          LET r == PostOutcome(entries, nextId, projects, now, o, pj, t[1], t[2], FALSE)
          IN  r.resp.status = 500 => r.resp.error # UniqueMsg

\* the requests C10 is about: e2 = the entry, e1 = the linked previous entry,
\* closed, ending where e2 starts, and the shift succeeds
C10_Case(o, e1, e2, halfMs) ==
    /\ e1.owner = o /\ e2.owner = o
    /\ e1.end # Null /\ e1.end = e2.start
    /\ halfMs > 0
    /\ ShiftOutcome(entries, o, e2.id, halfMs, e1.id).resp.status = 200

\* C10 as stated: both e1.end and e2.start decrease by exactly d (= halfMs / 2
\* milliseconds).
C10_ShiftByExactlyD ==
    \A o \in Owners, e1 \in entries, e2 \in entries, halfMs \in 1..MaxDelta :
        C10_Case(o, e1, e2, halfMs) =>
            LET r == ShiftOutcome(entries, o, e2.id, halfMs, e1.id)
            IN  \A f1 \in getEntry(r.led, e1.id, o), f2 \in getEntry(r.led, e2.id, o) :
                    /\ 2 * f1.end = 2 * e1.end - halfMs
                    /\ 2 * f2.start = 2 * e2.start - halfMs

\* C10 (amended): both e1.end and e2.start decrease by the same amount, d rounded
\* to the nearest whole millisecond (halves up), in one commit: e1.end = e2.start
\* still holds, nothing else changes, and a shift that fails changes nothing.
C10_ShiftBothByRoundedD ==
    \A o \in Owners, id \in Ids, e1id \in Ids, halfMs \in 1..MaxDelta :
        LET r == ShiftOutcome(entries, o, id, halfMs, e1id)
        IN  /\ r.resp.status # 200 => r.led = entries
            /\ \A e1 \in entries, e2 \in entries :
                  (e1.id = e1id /\ e2.id = id /\ C10_Case(o, e1, e2, halfMs)) =>
                      \E k \in 1..MaxDelta :
                          /\ 2 * k \in {halfMs, halfMs + 1}
                          /\ r.led = (entries \ {e1, e2})
                                       \cup {[e1 EXCEPT !.end = e1.end - k],
                                             [e2 EXCEPT !.start = e2.start - k]}

\* e1 ends where e2 starts and the linked shift succeeds
C10_Witness ==
    \E o \in Owners, e1 \in entries, e2 \in entries, halfMs \in 1..MaxDelta :
        e1.id # e2.id /\ C10_Case(o, e1, e2, halfMs)

\* C11: a shiftStart that would leave the shifted entry's new start not before its
\* end, or the linked previous (closed) entry's new end not after its start, is
\* answered 400 and changes neither entry (nor any other).
C11_ShiftValidation ==
    \A o \in Owners, id \in Ids, prev \in LinkIn, halfMs \in 1..MaxDelta :
        \A e2 \in getEntry(entries, id, o) :
            LET k == ShiftMs(halfMs)
                r == ShiftOutcome(entries, o, id, halfMs, prev)
                ownBad == e2.end # Null /\ ~(e2.start - k < e2.end)
                previousBad == \E e1 \in getEntry(entries, prev, o) :
                                   e1.end # Null /\ ~(e1.start < e1.end - k)
            IN  (ownBad \/ previousBad) => (r.resp.status = 400 /\ r.led = entries)

\* the shifted entry alone would stay valid, the linked previous entry would not,
\* and the shift is answered 400
C11_Witness ==
    \E e1 \in entries, e2 \in entries, halfMs \in 1..MaxDelta :
        /\ e1.owner = e2.owner /\ e1.id # e2.id
        /\ e1.end # Null /\ e1.start < e1.end /\ e1.end = e2.start
        /\ ~(e1.start < e1.end - ShiftMs(halfMs))
        /\ ShiftOutcome(entries, e2.owner, e2.id, halfMs, Absent).resp.status = 200
        /\ ShiftOutcome(entries, e2.owner, e2.id, halfMs, e1.id).resp.status = 400

\* C12: edit validates the effective interval, each bound not given taking the
\* entry's stored value: when the effective end is present and the effective
\* start is not strictly before it, the edit is answered 400 and the ledger is
\* unchanged.
C12_EditEffectiveInterval ==
    \A e \in entries, st \in Times \cup {Absent}, en \in Times \cup {Absent, Null} :
      \A pj \in OwnProjects(e.owner) \cup {Absent} :
        LET effStart == IF st = Absent THEN e.start ELSE st
            effEnd == IF en = Absent THEN e.end ELSE en
            r == EditOutcome(entries, projects, e.owner, e.id, st, en, pj)
        IN  (~(st = Absent /\ en = Absent /\ pj = Absent) /\ effEnd # Null /\ ~(effStart < effEnd))
                => (r.resp.status = 400 /\ r.led = entries)

\* only new_start is given, it is the stored end of a valid closed entry, and the
\* edit is answered 400
C12_Witness ==
    \E e \in entries :
        /\ e.end # Null /\ e.start < e.end
        /\ EditOutcome(entries, projects, e.owner, e.id, e.end, Absent, Absent).resp.status = 400

\* C13: an edit whose new_start or new_end is not a well-formed instant is
\* answered 400, not 500, and does not change the entry.
C13_EditMalformedDate ==
    \A e \in entries, st \in TimeIn, en \in EndIn :
      \A pj \in OwnProjects(e.owner) \cup {Absent} :
        (st = NaN \/ en = NaN) =>
            LET r == EditOutcome(entries, projects, e.owner, e.id, st, en, pj)
            IN  r.resp.status = 400 /\ r.led = entries

C15_ImportValidation ==
    \A o \in Owners :
      \A pj \in OwnProjects(o) :
        /\ \A st \in Times \cup {NaN}, en \in Times \cup {NaN} :
              (st = NaN \/ en = NaN \/ st >= en) =>
                  LET r == PostOutcome(entries, nextId, projects, now, o, pj, st, en, FALSE)
                  IN  r.resp.status = 400 /\ r.led = entries /\ r.nid = nextId
        /\ \A st \in Times \cup {NaN} :
              LET r == PostOutcome(entries, nextId, projects, now, o, pj, st, Absent, FALSE)
              IN  \A e \in r.led : (\A f \in entries : f.id # e.id) => e.end = Null

\* the caller has an open entry; an import with start = end is answered 400 and a
\* request with a start but no end is answered 200
C15_Witness ==
    \E o \in Owners :
      \E pj \in OwnProjects(o) :
        /\ Running(entries, o) # {}
        /\ PostOutcome(entries, nextId, projects, now, o, pj, 1, 1, FALSE).resp.status = 400
        /\ PostOutcome(entries, nextId, projects, now, o, pj, 1, Absent, FALSE).resp.status = 200

\* C16: start and importClosed naming a project that does not exist or belongs
\* to another owner are answered 404 and leave the ledger as it was; the
\* caller's open entry stays open.
C16_ForeignProject ==
    \A o \in Owners, pj \in ProjectRefs, t \in {<<Absent, Absent>>, <<0, Absent>>, <<0, 1>>} :
        pj \notin OwnProjects(o) =>
            LET r == PostOutcome(entries, nextId, projects, now, o, pj, t[1], t[2], FALSE)
            IN  r.resp.status = 404 /\ r.led = entries /\ r.nid = nextId

\* the caller has an open entry and names a project of another owner: 404
C16_Witness ==
    \E o \in Owners, p \in projects :
        /\ p.owner # o
        /\ Running(entries, o) # {}
        /\ nextId <= MaxId
        /\ PostOutcome(entries, nextId, projects, now, o, p.id, Absent, Absent, FALSE).resp.status = 404

\* C17: in every reachable state every entry's project_id is the id of an
\* existing project whose owner is the entry's owner (an existing API key), under
\* start, importClosed, edit with a new project_id, project deletion and API key
\* deletion.
C17_ProjectOfSameOwner ==
    \A e \in entries :
        /\ e.owner \in apiKeys
        /\ \E p \in projects : p.id = e.project /\ p.owner = e.owner

\* an API key has been deleted with its projects and entries, two entries were
\* created, and one entry, of the remaining owner, is left
C17_Witness ==
    \E o \in Owners :
        /\ apiKeys = {o}
        /\ Cardinality(projects) = 1
        /\ nextId = MaxId + 1
        /\ Cardinality(entries) = 1

\* the intervals [start, end) of two entries meet, an open entry running from its
\* start onward
C18_Overlap(e1, e2) ==
    /\ e2.end # Null => e1.start < e2.end
    /\ e1.end # Null => e2.start < e1.end

\* C18: in every reachable state, the intervals of two distinct entries of one
\* owner do not overlap.
C18_NoOverlap ==
    \A e1 \in entries, e2 \in entries :
        (e1.id # e2.id /\ e1.owner = e2.owner) => ~C18_Overlap(e1, e2)

\* C19: delete(entry_id) by the entry's owner is answered 200 and removes that
\* entry and no other; for an id that no entry has, or that an entry of another
\* owner has, it is answered 404 and removes nothing.
C19_DeleteExactlyOne ==
    \A o \in Owners, id \in 1..MaxId + 1 :
        LET r == DeleteOutcome(entries, o, id)
        IN  IF \E e \in entries : e.id = id /\ e.owner = o
            THEN r.resp.status = 200 /\ r.led = {e \in entries : e.id # id}
            ELSE r.resp.status = 404 /\ r.led = entries

\* the ledger holds an entry of each owner: deleting one's own is answered 200,
\* deleting the other owner's 404
C19_Witness ==
    \E e1 \in entries, e2 \in entries :
        /\ e1.owner # e2.owner
        /\ DeleteOutcome(entries, e1.owner, e1.id).resp.status = 200
        /\ DeleteOutcome(entries, e1.owner, e2.id).resp.status = 404

\* C20: an entry identifier is assigned once: every identifier in the ledger is
\* below the sequence value nextId, nextId never decreases, and a row that a step
\* creates gets an identifier at or above the nextId before the step, hence above
\* every identifier assigned before, whatever has been deleted since.
C20_IdsNeverReused ==
    [][/\ \A e \in entries : e.id < nextId
       /\ nextId' >= nextId
       /\ \A e \in entries' : (\E f \in entries : f.id = e.id) \/ (nextId <= e.id /\ e.id < nextId')]_vars

\* entry 1 is gone and the entry created last has the highest identifier
C20_Witness ==
    /\ nextId = MaxId + 1
    /\ entries # {}
    /\ \A e \in entries : e.id = MaxId

\* C21: for each owner with more than one open entry, reconciliation leaves
\* exactly one of them open, one whose start no other open entry exceeds, and
\* gives every other formerly open entry of that owner that entry's start as end.
C21_ReconcileKeepsLatest ==
    \A o \in Owners :
        LET open == Running(entries, o)
            r == reconcileRunningEntriesForConstraints(entries)
        IN  Cardinality(open) > 1 =>
                \E kept \in open :
                    /\ \A q \in open : q.start <= kept.start
                    /\ Running(r.led, o) = {kept}
                    /\ \A q \in open \ {kept} : [q EXCEPT !.end = kept.start] \in r.led
                    /\ Cardinality(r.led) = Cardinality(entries)

\* an owner has three open entries with three different starts
C21_Witness ==
    \E o \in Owners :
        /\ Cardinality(Running(entries, o)) = 3
        /\ Cardinality({e.start : e \in Running(entries, o)}) = 3

\* C22: on a ledger in which no owner has more than one open entry,
\* reconciliation changes no entry and closes zero entries; on any ledger, running
\* it a second time changes nothing more.
C22_ReconcileIdempotent ==
    LET once == reconcileRunningEntriesForConstraints(entries)
        twice == reconcileRunningEntriesForConstraints(once.led)
    IN  /\ (\A o \in Owners : Cardinality(Running(entries, o)) <= 1) =>
               (once.led = entries /\ once.closed = 0)
        /\ twice.led = once.led
        /\ twice.closed = 0

\* reconciliation has run: an owner has one open entry and an entry that it closed
\* at that entry's start
C22_Witness ==
    \E kept \in entries, q \in entries :
        /\ kept.owner = q.owner /\ kept.id # q.id
        /\ Running(entries, kept.owner) = {kept}
        /\ q.end = kept.start

\* C23: every successfully committed operation produces exactly one event for
\* the owner: start, stop, edit, delete, shiftStart with a linked previous
\* entry, editLinked with next and/or previous entry ids.
C23_OneEventPerOperation ==
    \A o \in apiKeys, id \in Ids :
        /\ \A pj \in ProjectIds :
              LET r == PostOutcome(entries, RowId(entries, nextId), projects, now,
                                   o, pj, Absent, Absent, FALSE)
              IN  r.resp.status = 200
                  => Len(PostEvents(r.resp, FALSE, RowId(entries, nextId))) = 1
        /\ LET r == StopOutcome(entries, now, o, id)
           IN  r.resp.status = 200 => Len(StopEvents(r.resp, id)) = 1
        /\ LET r == EditOutcome(entries, projects, o, id, Absent, Null, Absent)
           IN  r.resp.status = 200 => Len(EditEvents(r.resp, id)) = 1
        /\ LET r == DeleteOutcome(entries, o, id)
           IN  r.resp.status = 200 => Len(DeleteEvents(r.resp, id)) = 1
        /\ \A prev \in Ids :
              LET r == ShiftOutcome(entries, o, id, 2, prev)
              IN  r.resp.status = 200 => Len(ShiftEvents(r.resp, id, prev)) = 1
        /\ \A next \in Ids \cup {Absent}, prev \in Ids \cup {Absent} :
              LET r == EditLinkedOutcome(entries, projects, o, id, 0, 2, next, prev)
              IN  r.resp.status = 200 /\ (next # Absent \/ prev # Absent)
                  => Len(EditLinkedEvents(r.resp, id, next, prev)) = 1

\* C24: when a send raises while the event of a committed stop is delivered,
\* the entry stays stopped and the operation still reports success.
C24_SendFailureStillSucceeds ==
    \A o \in apiKeys, id \in Ids :
        \A faulty \in SendFaults(o) :
            LET r == StopOutcome(entries, now, o, id)
                threw == SendThrew(clientsByApiKey, ws, o, StopEvents(r.resp, id), faulty)
            IN  r.resp.status = 200
                => /\ getEntry(r.led, id, o) # {}
                   /\ \A e \in getEntry(r.led, id, o) : e.end = now
                   /\ HandlerReply(r.resp, threw).status = 200

\* C25: the event of a committed stop is sent to every listener that is
\* subscribed under the owner and open when it is published, whose own send does
\* not raise, and to no other socket: none under another owner, none that is not
\* open, none that has not connected yet.
C25_SentToOwnersOpenListeners ==
    \A o \in apiKeys, id \in Ids :
        \A faulty \in SendFaults(o) :
            LET r == StopOutcome(entries, now, o, id)
                ev == StopEvents(r.resp, id)
                got == Sends(clientsByApiKey, ws, o, ev, faulty)
            IN  r.resp.status = 200
                => \A s \in Socks \ faulty :
                      (got[s] = ev) <=> (ws[s].readyState = "open" /\ ws[s].apiKey = o)

\* the same when no send raises
C25_SentWhenNoSendRaises ==
    \A o \in apiKeys, id \in Ids :
        LET r == StopOutcome(entries, now, o, id)
            ev == StopEvents(r.resp, id)
            got == Sends(clientsByApiKey, ws, o, ev, {})
        IN  r.resp.status = 200
            => \A s \in Socks :
                  (got[s] = ev) <=> (ws[s].readyState = "open" /\ ws[s].apiKey = o)

\* C26: a shiftStart whose amount is zero, negative or not a finite number is
\* answered 400 and changes neither the entry nor the linked previous entry (nor
\* any other).
C26_ShiftAmountValidation ==
    \A o \in apiKeys, id \in IdIn, prev \in LinkIn, halfMs \in {-1, 0, NaN} :
        LET r == ShiftOutcome(entries, o, id, halfMs, prev)
        IN  r.resp.status = 400 /\ r.led = entries

\* an entry and a linked previous entry that a positive amount would shift, and
\* the amount zero is answered 400
C26_Witness ==
    \E e1 \in entries, e2 \in entries :
        /\ e1.owner = e2.owner /\ e1.id # e2.id /\ e1.owner \in apiKeys
        /\ e1.end # Null /\ e1.end = e2.start
        /\ ShiftOutcome(entries, e2.owner, e2.id, 1, e1.id).resp.status = 200
        /\ ShiftOutcome(entries, e2.owner, e2.id, 1, e1.id).led # entries
        /\ ShiftOutcome(entries, e2.owner, e2.id, 0, e1.id).resp.status = 400

\* C27: a shiftStart that names a linked previous entry which is open, does not
\* exist or belongs to another owner fails and writes nothing.
C27_BadPreviousWritesNothing ==
    \A o \in apiKeys, id \in Ids, prev \in LinkIn \ {Absent}, halfMs \in 1..MaxDelta :
        (\/ getEntry(entries, prev, o) = {}
         \/ \E e1 \in getEntry(entries, prev, o) : e1.end = Null)
        => LET r == ShiftOutcome(entries, o, id, halfMs, prev)
           IN  r.resp.status # 200 /\ r.led = entries

\* the same for every id of a linked previous entry but 0
C27_BadPreviousNotZero ==
    \A o \in apiKeys, id \in Ids, prev \in LinkIn \ {Absent, 0}, halfMs \in 1..MaxDelta :
        (\/ getEntry(entries, prev, o) = {}
         \/ \E e1 \in getEntry(entries, prev, o) : e1.end = Null)
        => LET r == ShiftOutcome(entries, o, id, halfMs, prev)
           IN  r.resp.status # 200 /\ r.led = entries

\* C28: deleting an API key removes every project and every entry of that owner
\* and leaves the projects and entries of every other owner as they were.
C28_DeleteApiKeyCascade ==
    \A id \in apiKeys :
        LET r == DeleteApiKeyOutcome(entries, projects, apiKeys, id)
        IN  /\ r.resp.status = 200
            /\ r.keys = apiKeys \ {id}
            /\ r.projs = {p \in projects : p.owner # id}
            /\ r.led = {e \in entries : e.owner # id}

\* each of two owners has a project and an entry when the key of one is deleted
C28_Witness ==
    \E id \in apiKeys, o \in apiKeys :
        /\ o # id
        /\ \E e \in entries : e.owner = id
        /\ \E e \in entries : e.owner = o
        /\ \E p \in projects : p.owner = id
        /\ \E p \in projects : p.owner = o
        /\ DeleteApiKeyOutcome(entries, projects, apiKeys, id).led # entries
        /\ DeleteApiKeyOutcome(entries, projects, apiKeys, id).led # {}

\* C29: an editLinked that changes the entry's start and names a next entry
\* whose start is at or after the new start is answered 400 and writes nothing.
C29_NextInvalidRejectsAll ==
    \A o \in apiKeys, id \in Ids, next \in LinkIn, prev \in LinkIn :
        \A st \in Times, en \in Times \cup {Absent} :
            \A e \in getEntry(entries, id, o), n \in getEntry(entries, next, o) :
                LET r == EditLinkedOutcome(entries, projects, o, id, st, en, next, prev)
                IN  (st # e.start /\ n.start >= st)
                    => (r.resp.status = 400 /\ r.led = entries)

\* the edit alone, and with its linked previous entry, would be written; the
\* start of the linked next entry, another entry, is not before the new start
C29_Witness ==
    \E e \in entries, n \in entries :
        \E st \in Times, en \in Times :
            /\ e.owner = n.owner /\ e.id # n.id /\ e.owner \in apiKeys
            /\ st # e.start /\ st < en /\ en # e.end /\ n.start >= st
            /\ EditLinkedOutcome(entries, projects, e.owner, e.id, st, en, Absent, n.id).resp.status = 200
            /\ EditLinkedOutcome(entries, projects, e.owner, e.id, st, en, n.id, n.id).resp.status = 400

\* C30: on a successful editLinked, a linked next entry (another entry) has its
\* end set to the new start if the start changed; a linked previous entry
\* (another entry) has its start set to the new end if the end changed to a
\* value that is not null; no other entry than the edited one is modified.
C30_CascadeAsymmetric ==
    \A o \in apiKeys, id \in Ids, next \in LinkIn, prev \in LinkIn :
        \A st \in Times, en \in Times \cup {Absent} :
            \A e \in getEntry(entries, id, o) :
                LET r == EditLinkedOutcome(entries, projects, o, id, st, en, next, prev)
                    newEnd == IF en = Absent THEN Null ELSE en
                    toNext(x) == x.id = next /\ x.owner = o /\ st # e.start
                    toPrevious(x) == x.id = prev /\ x.owner = o /\ newEnd # e.end /\ newEnd # Null
                IN  r.resp.status = 200
                    => \A x \in entries :
                          x.id # id
                          => \E y \in r.led :
                                /\ y.id = x.id /\ y.owner = x.owner /\ y.project = x.project
                                /\ y.end = IF toNext(x) THEN st ELSE x.end
                                /\ y.start = IF toPrevious(x) THEN newEnd ELSE x.start

\* three successful edits with a linked neighbor: the start changed and the next
\* entry's end follows; the end changed and the previous entry's start follows;
\* only the end changed with a next entry linked, which stays as it was
C30_Witness ==
    \E e \in entries, x \in entries :
        /\ e.owner = x.owner /\ e.id # x.id /\ e.owner \in apiKeys
        /\ \E st \in Times :
              LET r == EditLinkedOutcome(entries, projects, e.owner, e.id, st,
                                         IF e.end = Null THEN Absent ELSE e.end, x.id, Absent)
              IN  /\ st # e.start /\ x.end # st
                  /\ r.resp.status = 200
                  /\ \E y \in r.led : y.id = x.id /\ y.end = st
        /\ \E en \in Times :
              LET r == EditLinkedOutcome(entries, projects, e.owner, e.id, e.start, en, Absent, x.id)
              IN  /\ en # e.end /\ x.start # en
                  /\ r.resp.status = 200
                  /\ \E y \in r.led : y.id = x.id /\ y.start = en
        /\ \E en \in Times :
              LET r == EditLinkedOutcome(entries, projects, e.owner, e.id, e.start, en, x.id, Absent)
              IN  /\ en # e.end
                  /\ r.resp.status = 200
                  /\ x \in r.led

\* C31: a successful edit changes only the fields it was given: the edited entry
\* keeps its start when no start_time is given, its end when no end_time is
\* given and its project when no project_id is given, each given field takes the
\* given value, and every other entry is as it was.
C31_EditFrame ==
    \A o \in apiKeys, id \in Ids :
        \A st \in Times \cup {Absent}, en \in Times \cup {Absent, Null}, pj \in ProjectIn :
            \A e \in getEntry(entries, id, o) :
                LET r == EditOutcome(entries, projects, o, id, st, en, pj)
                IN  r.resp.status = 200
                    => /\ r.led \ getEntry(r.led, id, o) = entries \ {e}
                       /\ getEntry(r.led, id, o) =
                             {[id |-> id, owner |-> o,
                               start |-> IF st = Absent THEN e.start ELSE st,
                               end |-> IF en = Absent THEN e.end ELSE en,
                               project |-> IF pj = Absent THEN e.project ELSE pj]}

\* beside another entry, a closed entry is edited with only a project_id, which
\* changes its project, and with only a start_time, which changes its start
C31_Witness ==
    \E e \in entries, x \in entries :
        /\ e.id # x.id /\ e.owner \in apiKeys /\ e.end # Null
        /\ \E pj \in OwnProjects(e.owner) :
              /\ pj # e.project
              /\ EditOutcome(entries, projects, e.owner, e.id, Absent, Absent, pj).resp.status = 200
              /\ EditOutcome(entries, projects, e.owner, e.id, Absent, Absent, pj).led # entries
        /\ \E st \in Times :
              /\ st # e.start
              /\ EditOutcome(entries, projects, e.owner, e.id, st, Absent, Absent).resp.status = 200
              /\ EditOutcome(entries, projects, e.owner, e.id, st, Absent, Absent).led # entries

\* an operation that answers an error has sent no event: stop and editLinked,
\* whichever sends raise
C32_FailedEmitsNothing ==
    \A o \in apiKeys, id \in Ids :
        \A faulty \in SendFaults(o) :
            /\ LET r == StopOutcome(entries, now, o, id)
                   ev == StopEvents(r.resp, id)
                   threw == SendThrew(clientsByApiKey, ws, o, ev, faulty)
               IN  HandlerReply(r.resp, threw).status # 200
                   => Sends(clientsByApiKey, ws, o, ev, faulty) = NoSends
            /\ \A next \in Ids \cup {Absent}, prev \in Ids \cup {Absent} :
                  LET r == EditLinkedOutcome(entries, projects, o, id, 0, 2, next, prev)
                      ev == EditLinkedEvents(r.resp, id, next, prev)
                      threw == SendThrew(clientsByApiKey, ws, o, ev, faulty)
                  IN  HandlerReply(r.resp, threw).status # 200
                      => Sends(clientsByApiKey, ws, o, ev, faulty) = NoSends

\* every event of a stop, a shiftStart or an editLinked names an entry of the
\* owner that is in the ledger the operation committed
C32_EventsDescribeWrites ==
    \A o \in apiKeys, id \in Ids :
        /\ LET r == StopOutcome(entries, now, o, id)
               ev == StopEvents(r.resp, id)
           IN  \A i \in 1..Len(ev) : getEntry(r.led, ev[i].id, o) # {}
        /\ \A prev \in Ids \cup {Absent} :
              LET r == ShiftOutcome(entries, o, id, 2, prev)
                  ev == ShiftEvents(r.resp, id, prev)
              IN  \A i \in 1..Len(ev) : getEntry(r.led, ev[i].id, o) # {}
        /\ \A next \in Ids \cup {Absent}, prev \in Ids \cup {Absent} :
              LET r == EditLinkedOutcome(entries, projects, o, id, 0, 2, next, prev)
                  ev == EditLinkedEvents(r.resp, id, next, prev)
              IN  \A i \in 1..Len(ev) : getEntry(r.led, ev[i].id, o) # {}

\* C32: events are emitted only after the operation has committed and never for
\* an operation that failed: an operation that answers an error has sent no
\* event, and every event sent describes a write of the committed ledger.
C32_EventsOnlyAfterCommit == C32_FailedEmitsNothing /\ C32_EventsDescribeWrites

\* C33: after reconciliation of any ledger, also one where several open entries
\* of an owner share the latest start, every owner has at most one open entry,
\* every entry that was closed is unchanged, and the open entry of an owner that
\* had only one is unchanged.
C33_ReconcileGeneral ==
    LET r == reconcileRunningEntriesForConstraints(entries)
    IN  /\ \A o \in Owners : Cardinality(Running(r.led, o)) <= 1
        /\ \A e \in entries : e.end # Null => e \in r.led
        /\ \A o \in Owners :
              Cardinality(Running(entries, o)) = 1 => Running(r.led, o) = Running(entries, o)
        /\ {e.id : e \in r.led} = {e.id : e \in entries}

\* two open entries of one owner share the latest start, beside a third entry
\* that is closed or is the only open entry of the other owner
C33_Witness ==
    \E a \in entries, b \in entries, c \in entries :
        /\ a.owner = b.owner /\ a.id # b.id
        /\ a.end = Null /\ b.end = Null /\ a.start = b.start
        /\ Running(entries, a.owner) = {a, b}
        /\ c.end # Null \/ (c.owner # a.owner /\ c.end = Null)

\* C35: in every listing, an entry's duration is -1 exactly when the entry is
\* open, and the duration of a closed entry is the whole number of seconds
\* between its start and its end.
C35_DurationSentinel ==
    \A o \in apiKeys, showAll \in BOOLEAN :
        \A x \in listEntries(entries, projects, o, showAll, now) :
            /\ x.duration = -1 <=> x.stop = Null
            /\ x.stop # Null
               => /\ x.duration * SecondMs <= x.stop - x.start
                  /\ x.stop - x.start < (x.duration + 1) * SecondMs

\* the same for the entries whose end is not before their start
C35_DurationOfOrderedEntries ==
    \A o \in apiKeys, showAll \in BOOLEAN :
        \A x \in listEntries(entries, projects, o, showAll, now) :
            (x.stop = Null \/ x.start <= x.stop)
            => /\ x.duration = -1 <=> x.stop = Null
               /\ x.stop # Null
                  => /\ x.duration * SecondMs <= x.stop - x.start
                     /\ x.stop - x.start < (x.duration + 1) * SecondMs

\* the requests of owner o that name the entry id: each is answered 404 and
\* leaves the ledger as it is
C34_DirectRequestsNotFound(o, id) ==
    /\ LET r == StopOutcome(entries, now, o, id)
       IN  r.resp.status = 404 /\ r.led = entries
    /\ LET r == DeleteOutcome(entries, o, id)
       IN  r.resp.status = 404 /\ r.led = entries
    /\ \A st \in Times \cup {Absent}, en \in Times \cup {Absent, Null}, pj \in ProjectIn :
          (st # Absent \/ en # Absent \/ pj # Absent)
          => LET r == EditOutcome(entries, projects, o, id, st, en, pj)
             IN  r.resp.status = 404 /\ r.led = entries
    /\ \A halfMs \in 1..MaxDelta, prev \in LinkIn :
          LET r == ShiftOutcome(entries, o, id, halfMs, prev)
          IN  r.resp.status = 404 /\ r.led = entries
    /\ \A st \in Times, en \in Times \cup {Absent}, next \in LinkIn, prev \in LinkIn :
          (en = Absent \/ st < en)
          => LET r == EditLinkedOutcome(entries, projects, o, id, st, en, next, prev)
             IN  r.resp.status = 404 /\ r.led = entries

\* the listing and the current entry of owner o do not hold the entry id
C34_NotReturned(o, id) ==
    /\ \A showAll \in BOOLEAN :
          \A y \in listEntries(entries, projects, o, showAll, now) : y.id # id
    /\ \A b \in currentEntry(entries, projects, o) : b.id # id

\* C34: no operation of one owner changes, deletes or returns an entry of
\* another owner: stop, edit, shiftStart, editLinked and delete given that
\* entry's id, and shiftStart and editLinked given it as the id of a linked
\* entry, are answered 404 and leave the ledger unchanged; listEntries and
\* currentOpenEntry do not hold it.
C34_OwnerIsolation ==
    \A o \in apiKeys :
        \A x \in {e \in entries : e.owner # o} :
            /\ C34_DirectRequestsNotFound(o, x.id)
            /\ C34_NotReturned(o, x.id)
            /\ \A e \in {f \in entries : f.owner = o} :
                  /\ \A halfMs \in 1..MaxDelta :
                        LET r == ShiftOutcome(entries, o, e.id, halfMs, x.id)
                        IN  r.resp.status = 404 /\ r.led = entries
                  /\ \A st \in Times, en \in Times \cup {Absent}, other \in LinkIn :
                        (en = Absent \/ st < en)
                        => /\ LET r == EditLinkedOutcome(entries, projects, o, e.id, st, en, x.id, other)
                              IN  r.resp.status = 404 /\ r.led = entries
                           /\ LET r == EditLinkedOutcome(entries, projects, o, e.id, st, en, other, x.id)
                              IN  r.resp.status = 404 /\ r.led = entries

\* the same without the answer of an editLinked that names the other owner's
\* entry as a linked entry (whatever it answers, that entry stays as it is), a
\* shiftStart that names it being answered 400 or 404
C34_OthersEntriesUntouched ==
    \A o \in apiKeys :
        \A x \in {e \in entries : e.owner # o} :
            /\ C34_DirectRequestsNotFound(o, x.id)
            /\ C34_NotReturned(o, x.id)
            /\ \A e \in {f \in entries : f.owner = o} :
                  /\ \A halfMs \in 1..MaxDelta :
                        LET r == ShiftOutcome(entries, o, e.id, halfMs, x.id)
                        IN  r.resp.status \in {400, 404} /\ r.led = entries
                  /\ \A st \in Times, en \in Times \cup {Absent}, other \in LinkIn :
                        /\ x \in EditLinkedOutcome(entries, projects, o, e.id, st, en, x.id, other).led
                        /\ x \in EditLinkedOutcome(entries, projects, o, e.id, st, en, other, x.id).led

\* C36: currentOpenEntry gives null exactly when the owner has no open entry and
\* otherwise the owner's open entry; right after a successful start it gives the
\* entry the start created, and right after a successful stop of that entry null.
C36_CurrentOpenEntry ==
    \A o \in apiKeys :
        /\ currentEntry(entries, projects, o) = {NullBody} <=> Running(entries, o) = {}
        /\ \A e \in Running(entries, o) :
              currentEntry(entries, projects, o) =
                  {[id |-> e.id, project_id |-> e.project, start |-> e.start]}
        /\ \A pj \in OwnProjects(o) :
              LET created == RowId(entries, nextId)
                  r == PostOutcome(entries, created, projects, now, o, pj, Absent, Absent, FALSE)
                  stopped == StopOutcome(r.led, now, o, created)
              IN  r.resp.status = 200
                  => /\ currentEntry(r.led, projects, o) =
                            {[id |-> created, project_id |-> pj, start |-> now]}
                     /\ stopped.resp.status = 200
                     /\ currentEntry(stopped.led, projects, o) = {NullBody}

\* an owner has a closed entry and an open one, which a further start would
\* close; the other owner has no open entry
C36_Witness ==
    \E e \in entries, c \in entries, o \in apiKeys :
        /\ e.owner = c.owner /\ e.owner \in apiKeys /\ o # e.owner
        /\ e.end = Null /\ c.end # Null
        /\ currentEntry(entries, projects, e.owner) # {NullBody}
        /\ currentEntry(entries, projects, o) = {NullBody}
        /\ \E pj \in OwnProjects(e.owner) :
              PostOutcome(entries, RowId(entries, nextId), projects, now,
                          e.owner, pj, Absent, Absent, FALSE).resp.status = 200

\* the sockets the registry holds under a key
C37_Registered(k) == {clientsByApiKey[k][i] : i \in 1..Len(clientsByApiKey[k])}

\* C37: the registry holds a listener exactly when it connected with a valid key
\* and its close event has not come, under that key and once; it holds no key
\* with an empty set of listeners, and no key that is not a valid one.
C37_RegistryExact ==
    /\ \A k \in DOMAIN clientsByApiKey :
          /\ clientsByApiKey[k] # <<>>
          /\ k \in Owners
          /\ \A i \in 1..Len(clientsByApiKey[k]), j \in 1..Len(clientsByApiKey[k]) :
                clientsByApiKey[k][i] = clientsByApiKey[k][j] => i = j
    /\ \A s \in Socks :
          /\ ws[s] # NoSocket
             => /\ ws[s].apiKey \in DOMAIN clientsByApiKey
                /\ s \in C37_Registered(ws[s].apiKey)
          /\ \A k \in DOMAIN clientsByApiKey :
                s \in C37_Registered(k) => (ws[s] # NoSocket /\ ws[s].apiKey = k)

\* the step of a connection without a valid key, and every step in which no
\* socket connects or has its close event, leaves the registry as it is
C37_OnlyValidConnectsRegister == [][ws' = ws => clientsByApiKey' = clientsByApiKey]_vars

\* a listener is registered under one key, the only other listener, of the other
\* key, has had its close event after an event was sent to it
C37_Witness ==
    \E s \in Socks, t \in Socks :
        /\ s # t
        /\ ws[s] # NoSocket /\ ws[t] = NoSocket
        /\ DOMAIN clientsByApiKey = {ws[s].apiKey}
        /\ clientsByApiKey[ws[s].apiKey] = <<s>>
        /\ entries # {}
        /\ \A e \in entries : e.owner # ws[s].apiKey

\* C38: in the earlier server, cleanupStaleRunningEntries(owner) leaves the owner
\* at most one open entry, an entry with the latest start when the owner had
\* open entries; it changes no entry of another owner and no closed entry, and it
\* changes nothing and returns 0 when the owner has at most one open entry.
C38_CleanupKeepsLatest ==
    \A o \in Owners :
        LET rows == allRunning(entries, o)
        IN  /\ rows = {} => cleanupStaleRunningEntries(entries, o, NullBody).led = entries
            /\ \A first \in mostRecent(rows) :
                  LET r == cleanupStaleRunningEntries(entries, o, first)
                  IN  /\ allRunning(r.led, o) = {first}
                      /\ \A q \in rows : q.start <= first.start
                      /\ \A e \in entries : (e.owner # o \/ e.end # Null) => e \in r.led
                      /\ {e.id : e \in r.led} = {e.id : e \in entries}
                      /\ Cardinality(rows) <= 1 => (r.led = entries /\ r.count = 0)

\* an owner has two open entries with different starts, the other owner has an
\* open entry
C38_Witness ==
    \E a \in entries, b \in entries, c \in entries :
        /\ a.owner = b.owner /\ c.owner # a.owner
        /\ a.end = Null /\ b.end = Null /\ c.end = Null
        /\ a.start < b.start

====
